---- MODULE Spec2Model ----
\* A model of the mentoring API: the group store (GroupProvider), the
\* authorization middleware (permit), the error envelope and the group routes
\* (specification Spec); the middleware chain from the authentication
\* middleware to the route handler (specification AuthSpec); the attribute
\* store and the handlers that write it (specification AttrSpec).
\*
\* One request is in flight at a time in each specification. In Spec it passes
\* the permit middleware of its route, then the route handler runs, then the
\* response is sent. The Firestore backend is taken to answer every call (no
\* storage fault), so `backend-error` arises only where the provider's own code
\* produces it.
EXTENDS Integers, Sequences, FiniteSets, TLC

\* ---------------------------------------------------------------- bounds

\* Number of document ids generateId() can return for groups.
MaxGroups == 2

GroupIds == 1..MaxGroups

\* Principals known to the identity provider; "groot" carries the custom
\* claim groot = true, the others do not.
NonRoot == {"a", "b"}
Roots == {"groot"}
Principals == NonRoot \cup Roots

\* User ids a path may carry: the principals and an id of no user.
PathUserIds == Principals \cup {"weird"}

\* Roles a participant entry may hold.
Roles == {"mentee", "mentor", "supermentor"}

\* Conversation ids and report types a path may carry.
ConversationIds == {"c1", "c2"}
ReportTypes == {"r1", "r2"}

\* The value JavaScript yields for a missing key.
Undefined == "undefined"

VARIABLES
  groups,      \* the Firestore collection 'groups': document id -> document
  req,         \* the request in flight (pc = "idle" when there is none)
  users,       \* the ids of the documents of the Firestore collection 'users'
  http,        \* the request passing the middleware chain (AuthSpec)
  attributes,  \* the collections users/{userId}/attributes: <<userId, id>> -> document
  provider,    \* the fields userId and clearContextImmediately of the AttributeProvider
  areq,        \* the last request to an attribute or answer route, with its answer
  accounts,    \* the ids (localId) of the accounts of the identity provider
  hits,        \* the store of the rate limiter: key -> requests counted in the window
  passed,      \* key -> requests of the window the rate limiter called next() for
  lreq,        \* the last request that met the rate limiter, with its answer (LimitSpec)
  flights,     \* the group requests in flight side by side (RaceSpec)
  calls        \* the attribute requests in flight side by side (ConcSpec)

vars ==
  <<groups, req, users, http, attributes, provider, areq, accounts, hits, passed, lreq,
    flights, calls>>

\* The state of the rate limiter and of the requests in flight side by side.
limitState == <<hits, passed, lreq>>
raceState == <<flights, calls>>

\* The state Spec leaves alone, and the state AuthSpec and AttrSpec leave alone.
others == <<users, http, attributes, provider, areq, accounts, limitState, raceState>>
groupState == <<groups, req>>
attributeState == <<attributes, provider, areq>>

\* ---------------------------------------------------------------- errors

\* The table with `not-allowed` given the status of the authentication errors.
errors_notAllowed401 ==
  [c \in {"improper-payload", "invalid-token", "incorrect-credentials",
          "entity-not-found", "route-not-found", "entity-already-exists",
          "not-allowed", "too-many-requests", "backend-error", "server-crash"} |->
     CASE c = "improper-payload" -> 400
       [] c \in {"invalid-token", "incorrect-credentials", "not-allowed"} -> 401
       [] c \in {"entity-not-found", "route-not-found"} -> 404
       [] c = "entity-already-exists" -> 409
       [] c = "too-many-requests" -> 429
       [] OTHER -> 500]

\* utils/errors.ts: the fixed status of every error code.
errors ==
  [c \in {"improper-payload", "invalid-token", "incorrect-credentials",
          "entity-not-found", "route-not-found", "entity-already-exists",
          "not-allowed", "too-many-requests", "backend-error", "server-crash"} |->
     CASE c = "improper-payload" -> 400
       [] c = "invalid-token" -> 401
       [] c = "incorrect-credentials" -> 401
       [] c = "entity-not-found" -> 404
       [] c = "route-not-found" -> 404
       [] c = "entity-already-exists" -> 409
       [] c = "not-allowed" -> 403
       [] c = "too-many-requests" -> 429
       [] c = "backend-error" -> 500
       [] c = "server-crash" -> 500]

\* new ServerError(code): the code with the message ("default" stands for the
\* message of the table) and the status of the table.
ServerError(code) == [code |-> code, message |-> "default", status |-> errors[code]]

\* new ServerError(code, message): the message is the one passed.
ServerErrorWith(code, message) == [ServerError(code) EXCEPT !.message = message]

\* The body of a response that is no error.
NoEnvelope == [code |-> "", message |-> "", status |-> 0]

\* response.sendError(error) for a ServerError: the HTTP status is that of the
\* error and the body is the envelope {error: {code, message, status}}.
sendServerError(serverError) ==
  [status |-> serverError.status, error |-> serverError.code, envelope |-> serverError,
   groups |-> <<>>]

\* response.sendError(error) for a code: a ServerError is made of it first.
sendError(code) == sendServerError(ServerError(code))

\* The error handler registered last by the routes loader: a ServerError is
\* sent as it is, an error of the request validator with status 400
\* ("BadRequest") is an `improper-payload`, one with status 404 and a path
\* ("NotFound") a `route-not-found`, anything else thrown (a TypeError) is a
\* `server-crash`.
errorHandler(thrown) ==
  IF thrown \in DOMAIN errors THEN sendError(thrown)
  ELSE IF thrown = "BadRequest"
  THEN sendServerError(ServerErrorWith("improper-payload", "validation"))
  ELSE IF thrown = "NotFound" THEN sendServerError(ServerError("route-not-found"))
  ELSE sendError("server-crash")

\* ---------------------------------------------------------------- group store

\* object[key] in JavaScript: the value, or undefined when the key is missing.
Lookup(object, key) == IF key \in DOMAIN object THEN object[key] ELSE Undefined

\* The ids of the stored documents in the order a Firestore query returns them
\* (by document id).
RECURSIVE DocOrder(_, _)
DocOrder(store, from) ==
  IF from > MaxGroups THEN <<>>
  ELSE IF from \in DOMAIN store THEN <<from>> \o DocOrder(store, from + 1)
  ELSE DocOrder(store, from + 1)

\* The shadow field `__<field>.<key>` of a stored document, which find
\* compares with true for an 'includes' query: true when the document holds
\* the map `__<field>` and the map holds true under the key.
shadow(document, field, key) ==
  LET name == CASE field = "participants" -> "__participants"
                [] field = "conversations" -> "__conversations"
                [] field = "reports" -> "__reports"
  IN  IF name \in DOMAIN document
      THEN key \in DOMAIN document[name] /\ document[name][key] = TRUE
      ELSE FALSE

\* GroupProvider.find(queries). The loop over the queries calls
\* groupsQuery.where(...) and drops what it returns: a Firestore query is
\* immutable and where() answers a new query, so groupsQuery stays the whole
\* collection and groupsQuery.get() yields every stored document, whatever the
\* queries are.
find(queries, store) ==
  LET order == DocOrder(store, 1)
  IN  [i \in 1..Len(order) |-> store[order[i]]]

\* GroupProvider.get(id): the stored document, or `entity-not-found` thrown.
get(id, store) ==
  IF id \in DOMAIN store
  THEN [error |-> "", groups |-> <<store[id]>>]
  ELSE [error |-> "entity-not-found", groups |-> <<>>]

\* GroupProvider.create(id, data). The existence check throws
\* `entity-already-exists` inside the try block, whose catch turns every error
\* into `backend-error`; otherwise the document is set and data returned.
create(id, data, store) ==
  IF id \in DOMAIN store
  THEN [error |-> "backend-error", groups |-> <<>>, store |-> store]
  ELSE [error |-> "", groups |-> <<data>>,
        store |-> [d \in DOMAIN store \cup {id} |-> IF d = id THEN data ELSE store[d]]]

\* GroupProvider.update(id, data). The guard is `if (groupDocument.exists)`:
\* an existing document throws `entity-not-found` inside the try block, which
\* the catch turns into `backend-error`; a missing document is written by
\* set(data, {merge: true}) and {...undefined, ...data} is returned. With id
\* undefined (0), doc(id) throws inside the try block: `backend-error` too.
update(id, data, store) ==
  IF id = 0 \/ id \in DOMAIN store
  THEN [error |-> "backend-error", groups |-> <<>>, store |-> store]
  ELSE [error |-> "", groups |-> <<data>>,
        store |-> [d \in DOMAIN store \cup {id} |-> IF d = id THEN data ELSE store[d]]]

\* GroupProvider.delete(id): Firestore deletes a missing document silently.
delete(id, store) ==
  [error |-> "", groups |-> <<>>, store |-> [d \in DOMAIN store \ {id} |-> store[d]]]

\* Group.fromGroupId(id) is Groups.get(id).
fromGroupId(id, store) == get(id, store)

\* ---------------------------------------------------------------- permit

\* What a middleware does with a request: calls next(), answers with
\* response.sendError(code), or throws (handleAsyncErrors forwards what is
\* thrown to the error handler with next(error)).
CallNext == [kind |-> "next", code |-> ""]
SendError(code) == [kind |-> "sendError", code |-> code]
Throw(code) == [kind |-> "throw", code |-> code]

\* request.user when the authentication middleware set none.
NoUser == [id |-> Undefined, isGroot |-> FALSE]

\* The requirement 'groot' and the requirements {subject, roles}, as one record
\* shape: the string 'groot' is the subject "groot" with no roles.
Groot == [subject |-> "groot", roles |-> <<>>]

\* groups.some((group) => group.participants[user.id] === role)
RECURSIVE someHasRole(_, _, _)
someHasRole(found, userId, role) ==
  IF found = <<>> THEN FALSE
  ELSE IF Lookup(Head(found).participants, userId) = role THEN TRUE
  ELSE someHasRole(Tail(found), userId, role)

\* groups.some((group) => group[field][key].includes(group.participants[user.id]))
\* for field = conversations or reports: "true", "false", or "TypeError" when
\* the group reached holds no entry under the key (includes of undefined).
RECURSIVE someIncludes(_, _, _, _)
someIncludes(found, field, key, userId) ==
  IF found = <<>> THEN "false"
  ELSE LET group == Head(found)
           list == IF field = "conversations" THEN group.conversations ELSE group.reports
       IN  IF key \notin DOMAIN list THEN "TypeError"
           ELSE IF Lookup(group.participants, userId) \in list[key] THEN "true"
           ELSE someIncludes(Tail(found), field, key, userId)

\* The loop of the `user` subject over context.roles.
RECURSIVE permitUser(_, _, _, _)
permitUser(roles, user, params, store) ==
  IF roles = <<>> THEN SendError("not-allowed")
  ELSE LET role == Head(roles) IN
    IF role = "self"
    THEN IF params.userId = user.id THEN CallNext
         ELSE permitUser(Tail(roles), user, params, store)
    ELSE LET found == find(<<[field |-> "participants", operator |-> "includes", value |-> params.userId],
                             [field |-> "participants", operator |-> "includes", value |-> user.id]>>,
                           store)
         IN  IF someHasRole(found, user.id, role) THEN CallNext
             ELSE permitUser(Tail(roles), user, params, store)

\* permitGroup with 'participant' compared like a named role.
RECURSIVE permitGroup_noParticipant(_, _, _, _)
permitGroup_noParticipant(roles, user, params, store) ==
  IF roles = <<>> THEN SendError("not-allowed")
  ELSE LET fetched == fromGroupId(params.groupId, store)
       IN  IF fetched.error # "" THEN Throw(fetched.error)
           ELSE IF Lookup(fetched.groups[1].participants, user.id) = Head(roles) THEN CallNext
           ELSE permitGroup_noParticipant(Tail(roles), user, params, store)

\* permitGroup with a role hierarchy: a supermentor passes for a mentor.
RECURSIVE permitGroup_hierarchy(_, _, _, _)
permitGroup_hierarchy(roles, user, params, store) ==
  IF roles = <<>> THEN SendError("not-allowed")
  ELSE LET role == Head(roles)
           fetched == fromGroupId(params.groupId, store)
       IN  IF fetched.error # "" THEN Throw(fetched.error)
           ELSE LET held == Lookup(fetched.groups[1].participants, user.id) IN
             IF role = "participant" /\ held # Undefined THEN CallNext
             ELSE IF held = role \/ (role = "mentor" /\ held = "supermentor") THEN CallNext
             ELSE permitGroup_hierarchy(Tail(roles), user, params, store)

\* permitGroup letting the request pass when the group is not stored.
RECURSIVE permitGroup_missingOk(_, _, _, _)
permitGroup_missingOk(roles, user, params, store) ==
  IF roles = <<>> THEN SendError("not-allowed")
  ELSE LET role == Head(roles)
           fetched == fromGroupId(params.groupId, store)
       IN  IF fetched.error # "" THEN CallNext
           ELSE LET group == fetched.groups[1] IN
             IF role = "participant" /\ user.id \in DOMAIN group.participants THEN CallNext
             ELSE IF Lookup(group.participants, user.id) = role THEN CallNext
             ELSE permitGroup_missingOk(Tail(roles), user, params, store)

\* The loop of the `group` subject over context.roles.
RECURSIVE permitGroup(_, _, _, _)
permitGroup(roles, user, params, store) ==
  IF roles = <<>> THEN SendError("not-allowed")
  ELSE LET role == Head(roles)
           fetched == fromGroupId(params.groupId, store)
       IN  IF fetched.error # "" THEN Throw(fetched.error)
           ELSE LET group == fetched.groups[1] IN
             IF role = "participant" /\ user.id \in DOMAIN group.participants THEN CallNext
             ELSE IF Lookup(group.participants, user.id) = role THEN CallNext
             ELSE permitGroup(Tail(roles), user, params, store)

\* The `conversation` subject.
permitConversation(user, params, store) ==
  LET found == find(<<[field |-> "participants", operator |-> "includes", value |-> user.id],
                      [field |-> "conversations", operator |-> "includes", value |-> params.conversationId]>>,
                    store)
      some == someIncludes(found, "conversations", params.conversationId, user.id)
  IN  IF some = "TypeError" THEN Throw("TypeError")
      ELSE IF some = "true" THEN CallNext
      ELSE SendError("not-allowed")

\* The `report` subject.
permitReport(user, params, store) ==
  LET found == find(<<[field |-> "participants", operator |-> "includes", value |-> params.userId],
                      [field |-> "participants", operator |-> "includes", value |-> user.id],
                      [field |-> "reports", operator |-> "includes", value |-> params.reportType]>>,
                    store)
      some == someIncludes(found, "reports", params.reportType, user.id)
  IN  IF some = "TypeError" THEN Throw("TypeError")
      ELSE IF some = "true" THEN CallNext
      ELSE SendError("not-allowed")

\* permit without the override for groot.
permit_noOverride(context, user, params, store) ==
  IF user = NoUser THEN Throw("invalid-token")
  ELSE IF context.subject = "groot" THEN SendError("not-allowed")
  ELSE IF context.subject = "user" THEN permitUser(context.roles, user, params, store)
  ELSE IF context.subject = "group" THEN permitGroup(context.roles, user, params, store)
  ELSE IF context.subject = "conversation" THEN permitConversation(user, params, store)
  ELSE IF context.subject = "report" THEN permitReport(user, params, store)
  ELSE SendError("not-allowed")

\* permit with the 'groot' requirement checked for a user being present only.
permit_grootOpen(context, user, params, store) ==
  IF user = NoUser THEN Throw("invalid-token")
  ELSE IF user.isGroot \/ context.subject = "groot" THEN CallNext
  ELSE IF context.subject = "user" THEN permitUser(context.roles, user, params, store)
  ELSE IF context.subject = "group" THEN permitGroup(context.roles, user, params, store)
  ELSE IF context.subject = "conversation" THEN permitConversation(user, params, store)
  ELSE IF context.subject = "report" THEN permitReport(user, params, store)
  ELSE SendError("not-allowed")

\* permit(context) applied to a request with request.user = user and
\* request.params = params, the store being as given.
permit(context, user, params, store) ==
  IF user = NoUser THEN Throw("invalid-token")
  ELSE IF user.isGroot THEN CallNext
  ELSE IF context.subject = "groot" THEN SendError("not-allowed")
  ELSE IF context.subject = "user" THEN permitUser(context.roles, user, params, store)
  ELSE IF context.subject = "group" THEN permitGroup(context.roles, user, params, store)
  ELSE IF context.subject = "conversation" THEN permitConversation(user, params, store)
  ELSE IF context.subject = "report" THEN permitReport(user, params, store)
  ELSE SendError("not-allowed")

\* ---------------------------------------------------------------- requests

\* request.user as the authentication middleware sets it for principal p:
\* the stored user with isGroot taken from the custom claims.
UserOf(p) == [id |-> p, isGroot |-> p \in Roots]

\* request.params of a route without path parameters.
NoParams ==
  [groupId |-> 0, userId |-> Undefined, conversationId |-> Undefined, reportType |-> Undefined]

\* Role lists a route may pass to permit for the user and the group subject
\* (the routes of the repository pass the first two of each).
UserRoleLists ==
  {<<"self", "mentor", "supermentor">>, <<"supermentor">>, <<"self">>, <<"mentor">>}
GroupRoleLists ==
  {<<"participant">>, <<"supermentor">>, <<"mentor">>, <<"mentor", "supermentor">>}

\* The requirements permit accepts.
Contexts ==
  {Groot}
    \cup {[subject |-> "user", roles |-> r] : r \in UserRoleLists}
    \cup {[subject |-> "group", roles |-> r] : r \in GroupRoleLists}
    \cup {[subject |-> "conversation", roles |-> <<>>], [subject |-> "report", roles |-> <<>>]}

\* The path parameters a requirement reads.
ParamsFor(context) ==
  CASE context.subject = "user" ->
         {[NoParams EXCEPT !.userId = u] : u \in PathUserIds}
    [] context.subject = "group" ->
         {[NoParams EXCEPT !.groupId = g] : g \in GroupIds}
    [] context.subject = "conversation" ->
         {[NoParams EXCEPT !.conversationId = c] : c \in ConversationIds}
    [] context.subject = "report" ->
         {[NoParams EXCEPT !.userId = u, !.reportType = r] : u \in PathUserIds, r \in ReportTypes}
    [] OTHER -> {NoParams}

\* The participant, conversation and report maps a group payload may carry.
ParticipantLists ==
  {[u \in {"a"} |-> "mentor"],
   [u \in {"b"} |-> "mentor"],
   [u \in {"a", "b"} |-> IF u = "a" THEN "supermentor" ELSE "mentee"],
   [u \in {"a", "b"} |-> IF u = "a" THEN "mentee" ELSE "supermentor"]}
ConversationsLists == {<<>>, [c \in {"c1"} |-> {"mentor", "supermentor"}]}
ReportsLists == {<<>>, [r \in {"r1"} |-> {"mentor", "supermentor"}]}

\* The payloads of POST /groups and PUT /groups/{groupId} that pass the
\* request validator (every property of the payload is required).
GroupPayloads ==
  [name : {"n1"}, participants : ParticipantLists, conversations : ConversationsLists,
   reports : ReportsLists, code : {"k1"}]

\* The payloads PUT /groups/{groupId} is sent with: a new name, the other
\* properties being those of a group "a" is a supermentor of.
UpdatePayloads ==
  {[payload EXCEPT !.name = "n2"] :
     payload \in {g \in GroupPayloads : g.conversations = <<>> /\ g.reports = <<>>
                                         /\ Lookup(g.participants, "a") = "supermentor"}}

\* The bodies PUT /groups/join is sent with: the code of the stored groups,
\* another code, and a code that is a number.
JoinPayloads ==
  {[type |-> "string", code |-> "k1"], [type |-> "string", code |-> "k2"],
   [type |-> "number", code |-> "7"]}

\* The request validator on JoinGroupPayload (code: string, required): the
\* error it throws for a body that does not fit, "" for one that does.
validate(payload) == IF payload.type = "string" THEN "" ELSE "BadRequest"

\* The payloads of GET /groups: no filter, or one filter on a field.
FindPayloads ==
  {<<>>} \cup {<<[field |-> "participants", value |-> u]>> : u \in NonRoot}
         \cup {<<[field |-> "code", value |-> "k1"]>>}

NoPayload == <<>>
NoResponse == [status |-> 0, error |-> "", envelope |-> NoEnvelope, groups |-> <<>>]

\* No request in flight.
Idle ==
  [pc |-> "idle", route |-> "", context |-> Groot, user |-> NoUser, params |-> NoParams,
   payload |-> NoPayload, permit |-> CallNext, handled |-> FALSE, response |-> NoResponse]

\* The routes of routes/groups.ts that permit guards, with their requirement.
GroupRoutes ==
  {[route |-> "POST /groups", context |-> Groot],
   [route |-> "GET /groups/:groupId", context |-> [subject |-> "group", roles |-> <<"participant">>]],
   [route |-> "PUT /groups/:groupId", context |-> [subject |-> "group", roles |-> <<"supermentor">>]],
   [route |-> "DELETE /groups/:groupId", context |-> Groot]}

\* The path parameters of a group route.
GroupRouteParams(route) ==
  IF route = "POST /groups" THEN {NoParams}
  ELSE {[NoParams EXCEPT !.groupId = g] : g \in GroupIds}

\* ---------------------------------------------------------------- other state

\* request.headers.authorization when the header is absent.
NoHeader == [type |-> "undefined", value |-> <<>>]

\* No request in the middleware chain.
NoRequest ==
  [pc |-> "idle", url |-> <<>>, authorization |-> NoHeader, user |-> NoUser, token |-> <<>>,
   error |-> "", ran |-> <<>>, response |-> NoResponse]

\* The AttributeProvider as constructed: userId and clearContextImmediately
\* undefined.
NoContext == [userId |-> Undefined, clearContextImmediately |-> FALSE]

\* No request to an attribute route has been made.
NoAttributeRequest == [route |-> "", status |-> 0, error |-> ""]

\* No request has met the rate limiter.
NoLimitRequest == [key |-> "", max |-> 0, status |-> 0, error |-> "", handled |-> FALSE]

\* ---------------------------------------------------------------- actions

\* handleAsyncErrors answering what fn throws with `not-allowed`.
handleAsyncErrors_denies(outcome) ==
  IF outcome.kind = "throw" THEN [kind |-> "sendError", code |-> "not-allowed"]
  ELSE outcome

\* handleAsyncErrors dropping what fn throws and calling next().
handleAsyncErrors_swallows(outcome) ==
  IF outcome.kind = "throw" THEN [kind |-> "next", code |-> ""]
  ELSE outcome

\* handleAsyncErrors(fn): what fn throws is forwarded with next(error), which
\* hands it to the error handler; anything else is left as fn did it.
handleAsyncErrors(outcome) ==
  IF outcome.kind = "throw" THEN [kind |-> "sendError", code |-> errorHandler(outcome.code).error]
  ELSE outcome

\* response.status(status).send({group}) or send({groups}).
send(status, found) ==
  [status |-> status, error |-> "", envelope |-> NoEnvelope, groups |-> found]

\* The answer of a route handler whose provider call gave `result`: the
\* success answer, or next(error) and the error handler's answer.
answer(status, result) ==
  IF result.error = "" THEN send(status, result.groups) ELSE errorHandler(result.error)

\* A request of principal p reaches the permit(context) middleware of a route.
Permit(route, context, p, params) ==
  /\ req.pc = "idle"
  /\ LET user == UserOf(p)
         verdict == handleAsyncErrors(permit(context, user, params, groups))
     IN  req' = [pc |-> IF verdict.kind = "next" THEN "handler" ELSE "done",
                 route |-> route, context |-> context, user |-> user, params |-> params,
                 payload |-> NoPayload, permit |-> verdict, handled |-> FALSE,
                 response |-> IF verdict.kind = "next" THEN NoResponse ELSE sendError(verdict.code)]
  /\ UNCHANGED <<groups, others>>

\* The query GET /groups builds from its payload, with the filter on the
\* caller's id added when the caller is not groot.
ListQuery(user, payload) ==
  [i \in 1..Len(payload) |->
     [field |-> payload[i].field,
      operator |-> IF payload[i].field \in {"participants", "conversations", "reports"}
                   THEN "includes" ELSE "==",
      value |-> payload[i].value]]
    \o (IF ~user.isGroot
        THEN <<[field |-> "participants", operator |-> "includes", value |-> user.id]>>
        ELSE <<>>)

\* GET /groups: no permit middleware; the handler runs for every principal.
ListGroups(p, payload) ==
  /\ req.pc = "idle"
  /\ LET user == UserOf(p)
     IN  req' = [Idle EXCEPT !.pc = "done", !.route = "GET /groups", !.user = user,
                             !.payload = payload, !.handled = TRUE,
                             !.response = send(200, find(ListQuery(user, payload), groups))]
  /\ UNCHANGED <<groups, others>>

\* PUT /groups/join: no permit middleware; the handler runs for every
\* principal whose body passed the request validator. It takes the first group
\* find returns, sets the caller's entry to 'mentee' in it and hands it to
\* Groups.update under the id the group carries.
JoinGroup(p, payload) ==
  /\ req.pc = "idle"
  /\ LET user == UserOf(p)
         found == find(<<[field |-> "code", operator |-> "==", value |-> payload.code]>>, groups)
         group == found[1]
         participants == [k \in DOMAIN group.participants \cup {user.id} |->
                            IF k = user.id THEN "mentee" ELSE group.participants[k]]
         result ==
           IF validate(payload) # ""
           THEN [error |-> validate(payload), groups |-> <<>>, store |-> groups]
           ELSE IF Len(found) = 0
           THEN [error |-> "entity-not-found", groups |-> <<>>, store |-> groups]
           ELSE update(group.id, [group EXCEPT !.participants = participants], groups)
     IN  /\ groups' = result.store
         /\ req' = [Idle EXCEPT !.pc = "done", !.route = "PUT /groups/join", !.user = user,
                                 !.payload = payload, !.handled = (validate(payload) = ""),
                                 !.response = answer(200, result)]
  /\ UNCHANGED others

\* POST /groups: the handler behind permit('groot').
CreateGroup(id, payload) ==
  /\ req.pc = "handler" /\ req.route = "POST /groups"
  /\ LET data == [id |-> id, name |-> payload.name, participants |-> payload.participants,
                  conversations |-> payload.conversations, reports |-> payload.reports,
                  code |-> payload.code]
         result == create(id, data, groups)
     IN  /\ groups' = result.store
         /\ req' = [req EXCEPT !.pc = "done", !.handled = TRUE, !.payload = data,
                                !.response = answer(201, result)]
  /\ UNCHANGED others

\* GET /groups/{groupId}: the handler behind permit({group, ['participant']}).
RetrieveGroup ==
  /\ req.pc = "handler" /\ req.route = "GET /groups/:groupId"
  /\ req' = [req EXCEPT !.pc = "done", !.handled = TRUE,
                        !.response = answer(200, get(req.params.groupId, groups))]
  /\ UNCHANGED <<groups, others>>

\* PUT /groups/{groupId}: the handler behind permit({group, ['supermentor']}).
\* The payload carries no id, so a document this handler writes has none
\* (id 0 stands for the missing field).
UpdateGroup(payload) ==
  /\ req.pc = "handler" /\ req.route = "PUT /groups/:groupId"
  /\ LET data == [id |-> 0, name |-> payload.name, participants |-> payload.participants,
                  conversations |-> payload.conversations, reports |-> payload.reports,
                  code |-> payload.code]
         result == update(req.params.groupId, data, groups)
     IN  /\ groups' = result.store
         /\ req' = [req EXCEPT !.pc = "done", !.handled = TRUE, !.payload = data,
                                !.response = answer(200, result)]
  /\ UNCHANGED others

\* DELETE /groups/{groupId}: the handler behind permit('groot').
DeleteGroup ==
  /\ req.pc = "handler" /\ req.route = "DELETE /groups/:groupId"
  /\ LET result == delete(req.params.groupId, groups)
     IN  /\ groups' = result.store
         /\ req' = [req EXCEPT !.pc = "done", !.handled = TRUE, !.response = answer(204, result)]
  /\ UNCHANGED others

\* The handler of any other guarded route (users, conversations, questions,
\* attributes): it runs and answers; it does not touch the group store.
OtherHandler ==
  /\ req.pc = "handler" /\ req.route = "guarded"
  /\ req' = [req EXCEPT !.pc = "done", !.handled = TRUE, !.response = send(200, <<>>)]
  /\ UNCHANGED <<groups, others>>

\* The response is sent and the request ends.
Respond ==
  /\ req.pc = "done"
  /\ req' = Idle
  /\ UNCHANGED <<groups, others>>

Init ==
  /\ groups = <<>>
  /\ req = Idle
  /\ users = {}
  /\ http = NoRequest
  /\ attributes = <<>>
  /\ provider = NoContext
  /\ areq = NoAttributeRequest
  /\ accounts = {}
  /\ hits = <<>>
  /\ passed = <<>>
  /\ lreq = NoLimitRequest
  /\ flights = <<>>
  /\ calls = <<>>

Next ==
  \/ \E r \in GroupRoutes, p \in Principals :
       \E params \in GroupRouteParams(r.route) : Permit(r.route, r.context, p, params)
  \/ \E context \in Contexts, p \in Principals :
       \E params \in ParamsFor(context) : Permit("guarded", context, p, params)
  \/ \E p \in Principals, payload \in FindPayloads : ListGroups(p, payload)
  \/ \E p \in Principals, payload \in JoinPayloads : JoinGroup(p, payload)
  \/ \E id \in GroupIds, payload \in GroupPayloads : CreateGroup(id, payload)
  \/ RetrieveGroup
  \/ \E payload \in UpdatePayloads : UpdateGroup(payload)
  \/ DeleteGroup
  \/ OtherHandler
  \/ Respond

Spec == Init /\ [][Next]_vars

\* ---------------------------------------------------------------- authentication

\* Strings the middleware tests by prefix or pattern are sequences of characters.
UrlPing == <<"/", "p", "i", "n", "g">>
UrlPong == <<"/", "p", "o", "n", "g">>
UrlPinged == <<"/", "p", "i", "n", "g", "e", "d">>
UrlSignUp == <<"/", "a", "u", "t", "h", "/", "s", "i", "g", "n", "u", "p">>
UrlSignIn == <<"/", "a", "u", "t", "h", "/", "s", "i", "g", "n", "i", "n">>
UrlAuthx == <<"/", "a", "u", "t", "h", "x">>
UrlDocs == <<"/", "d", "o", "c", "s">>
UrlUsers == <<"/", "u", "s", "e", "r", "s">>
UrlGroups == <<"/", "g", "r", "o", "u", "p", "s">>
UrlOther == <<"/", "x">>

\* The URLs requests are sent to.
Urls == {UrlPing, UrlPong, UrlPinged, UrlSignUp, UrlSignIn, UrlAuthx, UrlDocs, UrlUsers, UrlGroups, UrlOther}

\* string.startsWith(prefix)
startsWith(string, prefix) ==
  Len(string) >= Len(prefix) /\ SubSeq(string, 1, Len(prefix)) = prefix

\* The bearer tokens the identity provider has issued, with the account (sub)
\* each stands for; verifyIdToken rejects every other string.
TokenSub == [t \in {"ta", "tb", "tg"} |-> CASE t = "ta" -> "a" [] t = "tb" -> "b" [] t = "tg" -> "groot"]

\* The Authorization headers requests carry: none, or a string written as a
\* sequence of words (the prefix in some case, blanks, a token).
Headers ==
  {NoHeader}
    \cup {[type |-> "string", value |-> v] :
            v \in {<<"Bearer", " ", "ta">>, <<"tb">>, <<"bearer", " ", "tg">>,
                   <<" ", "ta", " ">>, <<"weird">>, <<"Bearer">>}}

\* token.replace(/bearer/i, ''): the first match of the word is dropped.
RECURSIVE replaceBearer(_)
replaceBearer(words) ==
  IF words = <<>> THEN <<>>
  ELSE IF Head(words) \in {"Bearer", "bearer", "BEARER"} THEN Tail(words)
  ELSE <<Head(words)>> \o replaceBearer(Tail(words))

\* string.trim(): blanks at both ends are dropped.
RECURSIVE trim(_)
trim(words) ==
  IF words = <<>> THEN <<>>
  ELSE IF Head(words) = " " THEN trim(Tail(words))
  ELSE IF words[Len(words)] = " " THEN trim(SubSeq(words, 1, Len(words) - 1))
  ELSE words

\* Auth.verifyToken(token): the decoded token, or `invalid-token` thrown.
verifyToken(token) ==
  IF Len(token) = 1 /\ token[1] \in DOMAIN TokenSub
  THEN [error |-> "", sub |-> TokenSub[token[1]]]
  ELSE [error |-> "invalid-token", sub |-> Undefined]

\* Users.get(id): the stored user, or `entity-not-found` thrown.
getUser(id, store) ==
  IF id \in store THEN [error |-> "", id |-> id] ELSE [error |-> "entity-not-found", id |-> Undefined]

\* Auth.retrieveClaims(userId): the custom claims of the account, or
\* `backend-error` thrown when getUser of the identity provider fails.
retrieveClaims(userId, fault) ==
  IF fault THEN [error |-> "backend-error", groot |-> FALSE]
  ELSE [error |-> "", groot |-> userId \in Roots]

\* The outcome of a middleware that forwards an error with next(error).
Forward(code, steps) ==
  [kind |-> "throw", code |-> code, user |-> NoUser, token |-> <<>>, steps |-> steps]

\* authenticateUsers letting a request without a header pass.
authenticateUsers_lenient(url, authorization, store, fault) ==
  IF startsWith(url, UrlPing) \/ startsWith(url, <<"/", "a", "u", "t", "h">>)
       \/ startsWith(url, UrlDocs)
  THEN [kind |-> "next", code |-> "", user |-> NoUser, token |-> <<>>, steps |-> <<>>]
  ELSE IF authorization.type # "string"
  THEN [kind |-> "next", code |-> "", user |-> NoUser, token |-> <<>>, steps |-> <<>>]
  ELSE LET token == trim(replaceBearer(authorization.value))
           tokenData == verifyToken(token)
           user == getUser(tokenData.sub, store)
           claims == retrieveClaims(user.id, fault)
       IN  IF tokenData.error # "" THEN Forward(tokenData.error, <<"token">>)
           ELSE IF user.error # "" THEN Forward(user.error, <<"token", "verifyToken">>)
           ELSE IF claims.error # ""
           THEN Forward(claims.error, <<"token", "verifyToken", "Users.get">>)
           ELSE [kind |-> "next", code |-> "",
                 user |-> [id |-> user.id, isGroot |-> claims.groot], token |-> token,
                 steps |-> <<"token", "verifyToken", "Users.get", "retrieveClaims">>]

\* authenticateUsers skipping every URL the ping route answers.
authenticateUsers_pong(url, authorization, store, fault) ==
  IF startsWith(url, UrlPing) \/ startsWith(url, UrlPong)
       \/ startsWith(url, <<"/", "a", "u", "t", "h">>) \/ startsWith(url, UrlDocs)
  THEN [kind |-> "next", code |-> "", user |-> NoUser, token |-> <<>>, steps |-> <<>>]
  ELSE IF authorization.type # "string" THEN Forward("invalid-token", <<>>)
  ELSE LET token == trim(replaceBearer(authorization.value))
           tokenData == verifyToken(token)
           user == getUser(tokenData.sub, store)
           claims == retrieveClaims(user.id, fault)
       IN  IF tokenData.error # "" THEN Forward(tokenData.error, <<"token">>)
           ELSE IF user.error # "" THEN Forward(user.error, <<"token", "verifyToken">>)
           ELSE IF claims.error # ""
           THEN Forward(claims.error, <<"token", "verifyToken", "Users.get">>)
           ELSE [kind |-> "next", code |-> "",
                 user |-> [id |-> user.id, isGroot |-> claims.groot], token |-> token,
                 steps |-> <<"token", "verifyToken", "Users.get", "retrieveClaims">>]

\* authenticateUsers(): next() at once for the URLs that start with /ping,
\* /auth or /docs; next(invalid-token) when the header is no string; else the
\* token is taken from the header, verified, the user fetched, the claims
\* retrieved and request.user set, the first error thrown being forwarded.
\* steps lists the steps that completed.
authenticateUsers(url, authorization, store, fault) ==
  IF startsWith(url, UrlPing) \/ startsWith(url, <<"/", "a", "u", "t", "h">>)
       \/ startsWith(url, UrlDocs)
  THEN [kind |-> "next", code |-> "", user |-> NoUser, token |-> <<>>, steps |-> <<>>]
  ELSE IF authorization.type # "string" THEN Forward("invalid-token", <<>>)
  ELSE LET token == trim(replaceBearer(authorization.value))
           tokenData == verifyToken(token)
           user == getUser(tokenData.sub, store)
           claims == retrieveClaims(user.id, fault)
       IN  IF tokenData.error # "" THEN Forward(tokenData.error, <<"token">>)
           ELSE IF user.error # "" THEN Forward(user.error, <<"token", "verifyToken">>)
           ELSE IF claims.error # ""
           THEN Forward(claims.error, <<"token", "verifyToken", "Users.get">>)
           ELSE [kind |-> "next", code |-> "",
                 user |-> [id |-> user.id, isGroot |-> claims.groot], token |-> token,
                 steps |-> <<"token", "verifyToken", "Users.get", "retrieveClaims">>]

\* The pattern /p[i|o]ng/ of the test route, matched anywhere in the URL.
matchesPing(url) ==
  \E i \in 1..(Len(url) - 3) :
    url[i] = "p" /\ url[i + 1] \in {"i", "|", "o"} /\ url[i + 2] = "n" /\ url[i + 3] = "g"

\* app.use(path, ...): the URL is the path or continues it with a "/".
mounted(url, path) ==
  IF ~startsWith(url, path) THEN FALSE
  ELSE IF Len(url) = Len(path) THEN TRUE
  ELSE url[Len(path) + 1] = "/"

\* The route of the routes loader that takes a URL: the first that matches.
routeOf(url) ==
  IF matchesPing(url) THEN "ping"
  ELSE IF mounted(url, <<"/", "a", "u", "t", "h">>) THEN "auth"
  ELSE IF mounted(url, UrlUsers) THEN "users"
  ELSE IF mounted(url, UrlGroups) THEN "groups"
  ELSE "*"

\* A request arrives and the authentication middleware runs on it.
Authenticate(url, authorization, fault) ==
  /\ http.pc = "idle"
  /\ LET outcome == authenticateUsers(url, authorization, users, fault)
     IN  http' = [NoRequest EXCEPT !.pc = IF outcome.kind = "next" THEN "limiter" ELSE "error",
                                   !.url = url, !.authorization = authorization,
                                   !.user = outcome.user, !.token = outcome.token,
                                   !.error = outcome.code, !.ran = outcome.steps]
  /\ UNCHANGED <<groupState, users, attributeState, accounts, limitState, raceState>>

\* The rate limiter: the request passes, or is answered `too-many-requests`
\* when its key is over the ceiling of the window (over).
RateLimit(over) ==
  /\ http.pc = "limiter"
  /\ http' = IF over
             THEN [http EXCEPT !.pc = "done", !.ran = Append(@, "rateLimit"),
                               !.response = sendError("too-many-requests")]
             ELSE [http EXCEPT !.pc = "documentation", !.ran = Append(@, "rateLimit")]
  /\ UNCHANGED <<groupState, users, attributeState, accounts, limitState, raceState>>

\* The documentation loader serves the URLs under /docs.
ServeDocs ==
  /\ http.pc = "documentation" /\ mounted(http.url, UrlDocs)
  /\ http' = [http EXCEPT !.pc = "done", !.ran = Append(@, "docs"), !.response = send(200, <<>>)]
  /\ UNCHANGED <<groupState, users, attributeState, accounts, limitState, raceState>>

\* The request validator: the request passes (""), or the validator forwards
\* the error it throws for the request.
Validate(thrown) ==
  /\ http.pc = "documentation" /\ ~mounted(http.url, UrlDocs)
  /\ http' = IF thrown = ""
             THEN [http EXCEPT !.pc = "router", !.ran = Append(@, "validate")]
             ELSE [http EXCEPT !.pc = "error", !.ran = Append(@, "validate"), !.error = thrown]
  /\ UNCHANGED <<groupState, users, attributeState, accounts, limitState, raceState>>

\* The test route /p[i|o]ng/.
Ping ==
  /\ http.pc = "router" /\ routeOf(http.url) = "ping"
  /\ http' = [http EXCEPT !.pc = "done", !.ran = Append(@, "ping"), !.response = send(200, <<>>)]
  /\ UNCHANGED <<groupState, users, attributeState, accounts, limitState, raceState>>

\* What the identity provider or the store may refuse a sign-up or a sign-in
\* with: nothing, a payload or a password it finds invalid, too many attempts,
\* a failure of the call that signs up or in, of the call that sets the
\* display name, or of the store.
SignUpFaults ==
  {"", "INVALID_EMAIL", "WEAK_PASSWORD", "TOO_MANY_ATTEMPTS_TRY_LATER", "accounts:signUp",
   "accounts:update", "store"}
SignInFaults == {"", "INVALID_PASSWORD", "accounts:signInWithPassword", "store"}

\* What signUp and signIn yield: the error thrown (code "" when none), and the
\* accounts and user documents that exist after the call.
Signed(thrown, accountsAfter, store) ==
  [error |-> thrown, accounts |-> accountsAfter, users |-> store]

\* UserProvider.create(id, data): `entity-already-exists` is thrown inside the
\* try block whose catch turns every error into `backend-error`.
userCreate(id, fault, store) ==
  IF id \in store \/ fault = "store" THEN [error |-> "backend-error", users |-> store]
  ELSE [error |-> "", users |-> store \cup {id}]

\* FirebaseAuthProvider.signUp(name, email, password) for the account p: the
\* identity provider makes the account (accounts:signUp), the display name is
\* set (accounts:update), and the document of the user is created; an error
\* of the first two calls is thrown as the ServerError its message names, one
\* of Users.create as it is. Nothing undoes the account once it is made.
signUp(p, fault, accountsBefore, store) ==
  IF p \in accountsBefore
  THEN Signed(ServerErrorWith("entity-already-exists", "email"), accountsBefore, store)
  ELSE IF fault \in {"INVALID_EMAIL", "WEAK_PASSWORD"}
  THEN Signed(ServerErrorWith("improper-payload", fault), accountsBefore, store)
  ELSE IF fault = "TOO_MANY_ATTEMPTS_TRY_LATER"
  THEN Signed(ServerError("too-many-requests"), accountsBefore, store)
  ELSE IF fault = "accounts:signUp"
  THEN Signed(ServerError("backend-error"), accountsBefore, store)
  ELSE IF fault = "accounts:update"
  THEN Signed(ServerError("backend-error"), accountsBefore \cup {p}, store)
  ELSE LET created == userCreate(p, fault, store)
       IN  IF created.error # ""
           THEN Signed(ServerError(created.error), accountsBefore \cup {p}, store)
           ELSE Signed(NoEnvelope, accountsBefore \cup {p}, created.users)

\* FirebaseAuthProvider.signIn(email, password) for the account p: the
\* identity provider signs the account in, then the document of the user is
\* fetched (Users.get).
signIn(p, fault, accountsBefore, store) ==
  IF p \notin accountsBefore
  THEN Signed(ServerErrorWith("entity-not-found", "email"), accountsBefore, store)
  ELSE IF fault = "INVALID_PASSWORD"
  THEN Signed(ServerErrorWith("incorrect-credentials", "password"), accountsBefore, store)
  ELSE IF fault # "" THEN Signed(ServerError("backend-error"), accountsBefore, store)
  ELSE IF getUser(p, store).error # ""
  THEN Signed(ServerError(getUser(p, store).error), accountsBefore, store)
  ELSE Signed(NoEnvelope, accountsBefore, store)

\* POST /auth/signup for the account p: 201 with the user and the tokens, or
\* next(error), which the error handler sends as it is.
SignUp(p, fault) ==
  /\ http.pc = "router" /\ http.url = UrlSignUp
  /\ LET result == signUp(p, fault, accounts, users)
     IN  /\ accounts' = result.accounts
         /\ users' = result.users
         /\ http' = [http EXCEPT !.pc = "done", !.ran = Append(@, "auth"),
                                 !.response = IF result.error.code = "" THEN send(201, <<>>)
                                              ELSE sendServerError(result.error)]
  /\ UNCHANGED <<groupState, attributeState, limitState, raceState>>

\* POST /auth/signin for the account p: 200 with the user and the tokens, or
\* next(error).
SignIn(p, fault) ==
  /\ http.pc = "router" /\ http.url = UrlSignIn
  /\ LET result == signIn(p, fault, accounts, users)
     IN  http' = [http EXCEPT !.pc = "done", !.ran = Append(@, "auth"),
                              !.response = IF result.error.code = "" THEN send(200, <<>>)
                                           ELSE sendServerError(result.error)]
  /\ UNCHANGED <<groupState, users, attributeState, accounts, limitState, raceState>>

\* GET /users: the permit('groot') middleware of the route.
PermitUsers ==
  /\ http.pc = "router" /\ routeOf(http.url) = "users"
  /\ LET verdict == permit(Groot, http.user, NoParams, groups)
     IN  http' = CASE verdict.kind = "next" ->
                        [http EXCEPT !.pc = "handler", !.ran = Append(@, "permit")]
                   [] verdict.kind = "sendError" ->
                        [http EXCEPT !.pc = "done", !.ran = Append(@, "permit"),
                                     !.response = sendError(verdict.code)]
                   [] OTHER ->
                        [http EXCEPT !.pc = "error", !.ran = Append(@, "permit"),
                                     !.error = verdict.code]
  /\ UNCHANGED <<groupState, users, attributeState, accounts, limitState, raceState>>

\* GET /users: the handler behind permit('groot').
ListUsers ==
  /\ http.pc = "handler"
  /\ http' = [http EXCEPT !.pc = "done", !.ran = Append(@, "users"), !.response = send(200, <<>>)]
  /\ UNCHANGED <<groupState, users, attributeState, accounts, limitState, raceState>>

\* GET /groups: the handler, no permit middleware before it.
ListGroupsRoute ==
  /\ http.pc = "router" /\ routeOf(http.url) = "groups"
  /\ http' = [http EXCEPT !.pc = "done", !.ran = Append(@, "groups"),
                          !.response = send(200, find(ListQuery(http.user, <<>>), groups))]
  /\ UNCHANGED <<groupState, users, attributeState, accounts, limitState, raceState>>

\* app.all('*'): no route took the request.
RouteNotFound ==
  /\ http.pc = "router" /\ routeOf(http.url) = "*"
  /\ http' = [http EXCEPT !.pc = "done", !.ran = Append(@, "*"),
                          !.response = sendError("route-not-found")]
  /\ UNCHANGED <<groupState, users, attributeState, accounts, limitState, raceState>>

\* The error handler answers the error a middleware forwarded.
HandleError ==
  /\ http.pc = "error"
  /\ http' = [http EXCEPT !.pc = "done", !.ran = Append(@, "errorHandler"),
                          !.response = errorHandler(http.error)]
  /\ UNCHANGED <<groupState, users, attributeState, accounts, limitState, raceState>>

\* The response is sent and the request ends.
AuthRespond ==
  /\ http.pc = "done"
  /\ http' = NoRequest
  /\ UNCHANGED <<groupState, users, attributeState, accounts, limitState, raceState>>

AuthNext ==
  \/ \E url \in Urls, authorization \in Headers, fault \in BOOLEAN :
       Authenticate(url, authorization, fault)
  \/ \E over \in BOOLEAN : RateLimit(over)
  \/ ServeDocs
  \/ \E thrown \in {"", "BadRequest", "NotFound", "MethodNotAllowed"} : Validate(thrown)
  \/ Ping
  \/ \E p \in Principals, fault \in SignUpFaults : SignUp(p, fault)
  \/ \E p \in Principals, fault \in SignInFaults : SignIn(p, fault)
  \/ PermitUsers
  \/ ListUsers
  \/ ListGroupsRoute
  \/ RouteNotFound
  \/ HandleError
  \/ AuthRespond

AuthSpec == Init /\ [][AuthNext]_vars

\* ---------------------------------------------------------------- attributes

\* Longest history an attribute is let to grow to.
MaxHistory == 3

\* The users whose attributes are written, the attribute ids, the values of
\* the payloads and the instants `new Date()` yields (milliseconds).
AttributeUsers == {"a"}
AttributeIds == {"x1"}
Values == {"v1", "v2"}
Dates == {1500, 2000}

\* message: null when the payload names none (as the payloads here do), or
\* the question answered.
NullMessage == [in |-> "null", id |-> "null"]
Messages == {NullMessage}

\* A Date as Firestore stores it: a Timestamp of seconds and nanoseconds.
toTimestamp(date) ==
  [seconds |-> date \div 1000, nanoseconds |-> (date % 1000) * 1000000]

\* new Date(snapshot.timestamp._nanoseconds): the nanoseconds of the stored
\* Timestamp read as the milliseconds of a Date.
toDate(timestamp) == timestamp.nanoseconds

\* The history as laid down in a document (Dates become Timestamps).
serialize(history) ==
  [i \in 1..Len(history) |-> [history[i] EXCEPT !.timestamp = toTimestamp(@)]]

\* for (const snapshot of data.history) snapshot.timestamp = new Date(...)
revive(history) ==
  [i \in 1..Len(history) |-> [history[i] EXCEPT !.timestamp = toDate(@)]]

\* No attribute returned.
NoAttribute == [id |-> Undefined, value |-> Undefined, history |-> <<>>, userId |-> Undefined]

\* AttributeProvider.context(options)
setContext(userId, clearContextImmediately) ==
  [userId |-> userId, clearContextImmediately |-> clearContextImmediately]

\* if (this.clearContextImmediately) this.userId = undefined
cleared(ctx) == IF ctx.clearContextImmediately THEN [ctx EXCEPT !.userId = Undefined] ELSE ctx

\* What a provider method yields when it throws.
Thrown(code, store, ctx) ==
  [error |-> code, attribute |-> NoAttribute, store |-> store, provider |-> ctx]

\* AttributeProvider.get(id): the stored attribute with its timestamps
\* revived, or `entity-not-found` thrown; an Error without a context.
attributeGet(id, store, ctx) ==
  IF ctx.userId = Undefined THEN Thrown("Error", store, ctx)
  ELSE IF <<ctx.userId, id>> \notin DOMAIN store THEN Thrown("entity-not-found", store, ctx)
  ELSE LET data == store[<<ctx.userId, id>>]
       IN  [error |-> "", attribute |-> [data EXCEPT !.history = revive(@)],
            store |-> store, provider |-> cleared(ctx)]

\* AttributeProvider.create(id, data): `entity-already-exists` is thrown
\* inside the try block whose catch turns every error into `backend-error`;
\* otherwise the document is set and data returned.
attributeCreate(id, data, store, ctx) ==
  IF ctx.userId = Undefined THEN Thrown("Error", store, ctx)
  ELSE IF <<ctx.userId, id>> \in DOMAIN store THEN Thrown("backend-error", store, ctx)
  ELSE LET key == <<ctx.userId, id>>
           document == [data EXCEPT !.history = serialize(@)]
       IN  [error |-> "", attribute |-> data,
            store |-> [k \in DOMAIN store \cup {key} |-> IF k = key THEN document ELSE store[k]],
            provider |-> cleared(ctx)]

\* AttributeProvider.update(id, data): `entity-not-found` is thrown inside the
\* try block whose catch turns every error into `backend-error`; otherwise the
\* timestamps of the stored history are revived, data is laid over the stored
\* fields with history = stored history followed by data.history, and the
\* whole is set.
attributeUpdate_keepsValue(id, data, store, ctx) ==
  IF ctx.userId = Undefined THEN Thrown("Error", store, ctx)
  ELSE IF <<ctx.userId, id>> \notin DOMAIN store THEN Thrown("backend-error", store, ctx)
  ELSE LET key == <<ctx.userId, id>>
           existingData == store[key]
           serializedAttribute ==
             [existingData EXCEPT !.history = revive(existingData.history) \o data.history]
       IN  [error |-> "", attribute |-> serializedAttribute,
            store |-> [store EXCEPT ![key] = [serializedAttribute EXCEPT !.history = serialize(@)]],
            provider |-> cleared(ctx)]

attributeUpdate(id, data, store, ctx) ==
  IF ctx.userId = Undefined THEN Thrown("Error", store, ctx)
  ELSE IF <<ctx.userId, id>> \notin DOMAIN store THEN Thrown("backend-error", store, ctx)
  ELSE LET key == <<ctx.userId, id>>
           existingData == store[key]
           serializedAttribute ==
             [existingData EXCEPT !.value = data.value,
                                  !.history = revive(existingData.history) \o data.history]
       IN  [error |-> "", attribute |-> serializedAttribute,
            store |-> [store EXCEPT ![key] = [serializedAttribute EXCEPT !.history = serialize(@)]],
            provider |-> cleared(ctx)]

\* AttributeProvider.delete(id): Firestore deletes a missing document silently.
attributeDelete(id, store, ctx) ==
  IF ctx.userId = Undefined THEN Thrown("Error", store, ctx)
  ELSE [error |-> "", attribute |-> NoAttribute,
        store |-> [k \in DOMAIN store \ {<<ctx.userId, id>>} |-> store[k]],
        provider |-> cleared(ctx)]

\* The answer of an attribute route whose provider call gave `result`.
attributeAnswer(route, status, result) ==
  [route |-> route,
   status |-> IF result.error = "" THEN status ELSE errorHandler(result.error).status,
   error |-> IF result.error = "" THEN "" ELSE errorHandler(result.error).error]

\* A history entry as a handler builds it.
Snapshot(observer, timestamp, message, value) ==
  [observer |-> observer, timestamp |-> timestamp, message |-> message, value |-> value]

\* The length of the stored history under a key (0 when nothing is stored).
Stored(key) == IF key \in DOMAIN attributes THEN Len(attributes[key].history) ELSE 0

\* The bodies of POST and PUT on the attribute routes.
CreateAttributePayloads == [id : AttributeIds, value : Values, message : Messages]
UpdateAttributePayloads == [value : Values, message : Messages]

\* The stored questions of the conversation: one question, whose first option
\* is picked (select) and names the next question, and whose second option
\* takes the input of the user.
Questions ==
  [q \in {"q1"} |->
     [id |-> q,
      options |-> <<[position |-> 1, type |-> "select",
                     attribute |-> [id |-> "x1", value |-> "v1"], nextQuestion |-> "q1"],
                    [position |-> 2, type |-> "input",
                     attribute |-> [id |-> "x1", value |-> Undefined], nextQuestion |-> Undefined]>>]]

\* The bodies of PUT .../questions/{questionId}/answer: a position, and an
\* input or none.
AnswerPayloads == [position : {1, 2, 3}, input : {"v2", Undefined}]

\* question.options.find((option) => option.position === position): the
\* index of the first such option, 0 when there is none.
RECURSIVE findOption(_, _, _)
findOption(options, position, from) ==
  IF from > Len(options) THEN 0
  ELSE IF options[from].position = position THEN from
  ELSE findOption(options, position, from + 1)

\* POST /users/{userId}/attributes: the handler behind permit.
CreateAttribute(p, userId, body, timestamp) ==
  /\ LET ctx == setContext(userId, TRUE)
         result ==
           attributeCreate(body.id,
                           [id |-> body.id, value |-> body.value, userId |-> userId,
                            history |-> <<Snapshot(p, timestamp, body.message, body.value)>>],
                           attributes, ctx)
     IN  /\ attributes' = result.store
         /\ provider' = result.provider
         /\ areq' = attributeAnswer("POST /users/:userId/attributes", 201, result)
  /\ UNCHANGED <<groupState, users, http, accounts, limitState, raceState>>

\* PUT /users/{userId}/attributes/{attributeId}: the handler behind permit.
UpdateAttribute(p, userId, attributeId, body, timestamp) ==
  /\ Stored(<<userId, attributeId>>) < MaxHistory
  /\ LET ctx == setContext(userId, TRUE)
         result ==
           attributeUpdate(attributeId,
                           [value |-> body.value,
                            history |-> <<Snapshot(p, timestamp, body.message, body.value)>>],
                           attributes, ctx)
     IN  /\ attributes' = result.store
         /\ provider' = result.provider
         /\ areq' = attributeAnswer("PUT /users/:userId/attributes/:attributeId", 200, result)
  /\ UNCHANGED <<groupState, users, http, accounts, limitState, raceState>>

\* DELETE /users/{userId}/attributes/{attributeId}: the handler behind permit.
DeleteAttribute(userId, attributeId) ==
  /\ LET result == attributeDelete(attributeId, attributes, setContext(userId, TRUE))
     IN  /\ attributes' = result.store
         /\ provider' = result.provider
         /\ areq' = attributeAnswer("DELETE /users/:userId/attributes/:attributeId", 204, result)
  /\ UNCHANGED <<groupState, users, http, accounts, limitState, raceState>>

\* What the answer handler does to the attribute of the picked option: the
\* stored attribute is fetched, given the answer as value and one more
\* snapshot, and handed whole to update; when that throws, a new attribute
\* with the one snapshot is handed to create.
setAttribute(id, given, snapshot, userId, store, ctx) ==
  LET got == attributeGet(id, store, ctx)
      updated ==
        attributeUpdate(id, [got.attribute EXCEPT !.value = given,
                                                  !.history = Append(@, snapshot)],
                        store, got.provider)
  IN  IF got.error = "" /\ updated.error = "" THEN updated
      ELSE attributeCreate(id, [id |-> id, value |-> given, userId |-> userId,
                                history |-> <<snapshot>>],
                           store, IF got.error = "" THEN updated.provider ELSE got.provider)

\* PUT /conversations/{conversationId}/questions/{questionId}/answer: the
\* handler behind permit.
AnswerQuestion(p, questionId, body, timestamp) ==
  /\ LET ctx == setContext(p, FALSE)
         question == Questions[questionId]
         picked == IF questionId \in DOMAIN Questions
                   THEN findOption(question.options, body.position, 1) ELSE 0
         pickedOption == question.options[picked]
         given == IF pickedOption.type = "select" THEN pickedOption.attribute.value
                   ELSE IF pickedOption.type = "input"
                        THEN (IF body.input = Undefined THEN "!noinput" ELSE body.input)
                        ELSE "!noinput"
         snapshot == Snapshot("qa-bot", timestamp, [in |-> "question", id |-> questionId], given)
         result ==
           IF picked = 0 THEN Thrown("entity-not-found", attributes, ctx)
           ELSE setAttribute(pickedOption.attribute.id, given, snapshot, p, attributes, ctx)
         next == IF result.error = "" /\ pickedOption.nextQuestion # Undefined
                      /\ pickedOption.nextQuestion \notin DOMAIN Questions
                 THEN [result EXCEPT !.error = "entity-not-found"] ELSE result
     IN  /\ picked # 0 => 2 * Stored(<<p, pickedOption.attribute.id>>) + 1 <= MaxHistory
         /\ attributes' = next.store
         /\ provider' = IF next.error = "" THEN [next.provider EXCEPT !.userId = Undefined]
                         ELSE next.provider
         /\ areq' = attributeAnswer("PUT /conversations/:conversationId/questions/:questionId/answer",
                                    200, next)
  /\ UNCHANGED <<groupState, users, http, accounts, limitState, raceState>>

AttrNext ==
  \/ \E p \in NonRoot, userId \in AttributeUsers, body \in CreateAttributePayloads,
        timestamp \in Dates : CreateAttribute(p, userId, body, timestamp)
  \/ \E p \in NonRoot, userId \in AttributeUsers, attributeId \in AttributeIds,
        body \in UpdateAttributePayloads, timestamp \in Dates :
          UpdateAttribute(p, userId, attributeId, body, timestamp)
  \/ \E userId \in AttributeUsers, attributeId \in AttributeIds :
       DeleteAttribute(userId, attributeId)
  \/ \E p \in AttributeUsers, questionId \in {"q1", "q2"}, body \in AnswerPayloads, timestamp \in Dates :
       AnswerQuestion(p, questionId, body, timestamp)

AttrSpec == Init /\ [][AttrNext]_vars

\* ---------------------------------------------------------------- rate limiter

\* The ceilings of the window: max(request).
MaxAnonymous == 50
MaxDocs == 500
MaxUser == 2000
MaxGroot == 10000

\* The requests over the ceiling a key is let to make in one window.
MaxOver == 2

\* request.ip of the client.
Ip == <<"ip1">>

\* The requests that reach the rate limiter: authenticateUsers has called
\* next() for them, with request.user set or, for the URLs it skips, not set.
LimitRequests ==
  {[url |-> UrlPing, user |-> NoUser, token |-> <<>>],
   [url |-> UrlSignIn, user |-> NoUser, token |-> <<>>],
   [url |-> UrlDocs, user |-> NoUser, token |-> <<>>],
   [url |-> UrlUsers, user |-> UserOf("a"), token |-> <<"ta">>],
   [url |-> UrlGroups, user |-> UserOf("groot"), token |-> <<"tg">>]}

\* max: (request) => request.user ? (isGroot ? 10_000 : 2000)
\*                                 : request.url.startsWith('/docs') ? 500 : 50
max(request) ==
  IF request.user # NoUser THEN (IF request.user.isGroot THEN MaxGroot ELSE MaxUser)
  ELSE IF startsWith(request.url, UrlDocs) THEN MaxDocs
  ELSE MaxAnonymous

\* keyGenerator: the token of request.user, the IP of the client without one.
keyGenerator(request) == IF request.user # NoUser THEN request.token ELSE Ip

\* The count of a key in a store of counts (none kept: 0).
Count(store, key) == IF key \in DOMAIN store THEN store[key] ELSE 0

\* store.increment(key) of the memory store: the count of the key goes up by
\* one.
increment(store, key) ==
  [k \in DOMAIN store \cup {key} |-> IF k = key THEN Count(store, key) + 1 ELSE store[k]]

\* The rate limiter letting a request pass when the key is at the ceiling.
rateLimitRequests_late(request, store) ==
  LET key == keyGenerator(request)
      totalHits == Count(store, key)
      maxHits == max(request)
  IN  [key |-> key, max |-> maxHits, store |-> increment(store, key),
       next |-> ~(totalHits > maxHits)]

\* rateLimitRequests(options) on a request: the key is counted, and the
\* request is handed on with next() unless totalHits > max, when the handler
\* of the options answers `too-many-requests`.
rateLimitRequests(request, store) ==
  LET key == keyGenerator(request)
      totalHits == increment(store, key)[key]
      maxHits == max(request)
  IN  [key |-> key, max |-> maxHits, store |-> increment(store, key),
       next |-> ~(totalHits > maxHits)]

\* A request meets the rate limiter and, when that calls next(), goes on to
\* its route. The requests of one window are those of one client.
Limit(request) ==
  /\ DOMAIN hits \subseteq {keyGenerator(request)}
  /\ Count(hits, keyGenerator(request)) < max(request) + MaxOver
  /\ LET limited == rateLimitRequests(request, hits)
         tier == <<limited.key, limited.max>>
     IN  /\ hits' = limited.store
         /\ passed' = IF limited.next THEN increment(passed, tier) ELSE passed
         /\ lreq' = IF limited.next
                    THEN [key |-> limited.key, max |-> limited.max, status |-> 200,
                          error |-> "", handled |-> TRUE]
                    ELSE [key |-> limited.key, max |-> limited.max,
                          status |-> sendError("too-many-requests").status,
                          error |-> sendError("too-many-requests").error, handled |-> FALSE]
  /\ UNCHANGED <<groupState, users, http, attributeState, accounts, raceState>>

\* windowMs has passed: the memory store forgets every count.
ResetAll ==
  /\ hits # <<>>
  /\ hits' = <<>>
  /\ passed' = <<>>
  /\ lreq' = NoLimitRequest
  /\ UNCHANGED <<groupState, users, http, attributeState, accounts, raceState>>

LimitNext ==
  \/ \E request \in LimitRequests : Limit(request)
  \/ ResetAll

LimitSpec == Init /\ [][LimitNext]_vars

\* ---------------------------------------------------------------- group requests side by side

\* The requests the server handles side by side: each await of a handler is a
\* point where another request may run.
Slots == {1, 2}

\* No group read or passed.
NoGroup ==
  [id |-> 0, name |-> "", participants |-> <<>>, conversations |-> <<>>, reports |-> <<>>,
   code |-> ""]

\* The group requests: root creates group 1 without participants or with a
\* as its supermentor, root deletes it, a renames it, a and b join by its code.
RaceRequests ==
  {[route |-> "POST /groups", user |-> UserOf("groot"), groupId |-> 1,
    data |-> [NoGroup EXCEPT !.id = 1, !.name = "n1", !.code = "k1", !.participants = members]] :
     members \in {<<>>, [a |-> "supermentor"]}}
    \cup {[route |-> "DELETE /groups/:groupId", user |-> UserOf("groot"), groupId |-> 1,
            data |-> NoGroup]}
    \cup {[route |-> "PUT /groups/:groupId", user |-> UserOf("a"), groupId |-> 1,
            data |-> [NoGroup EXCEPT !.name = "n2", !.code = "k1",
                                     !.participants = [a |-> "supermentor"]]]}
    \cup {[route |-> "PUT /groups/join", user |-> UserOf(p), groupId |-> 0,
            data |-> [NoGroup EXCEPT !.code = "k1"]] : p \in NonRoot}

\* The requirement permit is given on a route (none on PUT /groups/join).
ContextOf(route) ==
  IF route = "PUT /groups/:groupId" THEN [subject |-> "group", roles |-> <<"supermentor">>]
  ELSE Groot

\* A map laid over another by set(..., {merge: true}): the keys of both, the
\* values of the one laid over where it has the key.
mergeMaps(old, new) ==
  [k \in DOMAIN old \cup DOMAIN new |-> IF k \in DOMAIN new THEN new[k] ELSE old[k]]

\* doc(id).set(data): the document is data.
setDoc(id, data, store) ==
  [d \in DOMAIN store \cup {id} |-> IF d = id THEN data ELSE store[d]]

\* doc(id).set(data, {merge: true}): the fields of data are laid over those
\* of the stored document, maps key by key; a missing document is data (id 0
\* stands for a payload without the field id).
setMerge(id, data, store) ==
  IF id \notin DOMAIN store THEN setDoc(id, data, store)
  ELSE [store EXCEPT ![id] =
          [id |-> IF data.id = 0 THEN @.id ELSE data.id,
           name |-> data.name,
           participants |-> mergeMaps(@.participants, data.participants),
           conversations |-> mergeMaps(@.conversations, data.conversations),
           reports |-> mergeMaps(@.reports, data.reports),
           code |-> data.code]]

\* The answer a flight ends with.
Answered(flight, status, error) ==
  [flight EXCEPT !.pc = "done", !.status = status, !.error = error]

\* A request arrives: the routes with permit start there, PUT /groups/join
\* with Groups.find.
Arrive(slot, request) ==
  /\ slot \notin DOMAIN flights
  /\ flights' =
       [k \in DOMAIN flights \cup {slot} |->
          IF k = slot
          THEN [pc |-> IF request.route = "PUT /groups/join" THEN "find" ELSE "permit",
                route |-> request.route, user |-> request.user, groupId |-> request.groupId,
                data |-> request.data, read |-> {}, wrote |-> FALSE, status |-> 0,
                error |-> ""]
          ELSE flights[k]]
  /\ UNCHANGED <<groupState, users, http, attributeState, accounts, limitState, calls>>

\* permit(context) of the route reads the store as it is now.
PermitStep(slot) ==
  /\ slot \in DOMAIN flights /\ flights[slot].pc = "permit"
  /\ LET flight == flights[slot]
         verdict == handleAsyncErrors(permit(ContextOf(flight.route), flight.user,
                                             [NoParams EXCEPT !.groupId = flight.groupId],
                                             groups))
     IN  flights' =
           [flights EXCEPT ![slot] =
              IF verdict.kind # "next"
              THEN Answered(flight, sendError(verdict.code).status, verdict.code)
              ELSE [flight EXCEPT !.pc = IF flight.route = "DELETE /groups/:groupId"
                                         THEN "delete" ELSE "get"]]
  /\ UNCHANGED <<groupState, users, http, attributeState, accounts, limitState, calls>>

\* PUT /groups/join: Groups.find by the code; the first group found is given
\* the caller as mentee and is what Groups.update will be handed.
FindStep(slot) ==
  /\ slot \in DOMAIN flights /\ flights[slot].pc = "find"
  /\ LET flight == flights[slot]
         found == find(<<[field |-> "code", operator |-> "==", value |-> flight.data.code]>>,
                       groups)
         group == found[1]
     IN  flights' =
           [flights EXCEPT ![slot] =
              IF Len(found) = 0
              THEN Answered(flight, errorHandler("entity-not-found").status, "entity-not-found")
              ELSE [flight EXCEPT
                      !.pc = "get", !.groupId = group.id,
                      !.read = DOMAIN group.participants,
                      !.data = [group EXCEPT !.participants =
                                  mergeMaps(@, [k \in {flight.user.id} |-> "mentee"])]]]
  /\ UNCHANGED <<groupState, users, http, attributeState, accounts, limitState, calls>>

\* The doc(id).get() of GroupProvider.create and GroupProvider.update: create
\* goes on when the document is missing; update, whose guard is
\* `if (groupDocument.exists)`, goes on when it is missing too. What either
\* throws leaves as backend-error, as does doc(undefined).
GetStep(slot) ==
  /\ slot \in DOMAIN flights /\ flights[slot].pc = "get"
  /\ LET flight == flights[slot]
     IN  flights' =
           [flights EXCEPT ![slot] =
              IF flight.groupId = 0 \/ flight.groupId \in DOMAIN groups
              THEN Answered(flight, errorHandler("backend-error").status, "backend-error")
              ELSE [flight EXCEPT !.pc = "set"]]
  /\ UNCHANGED <<groupState, users, http, attributeState, accounts, limitState, calls>>

\* The set of GroupProvider.create (the document is replaced) and of
\* GroupProvider.update (merge), and the answer of the handler.
SetStep(slot) ==
  /\ slot \in DOMAIN flights /\ flights[slot].pc = "set"
  /\ LET flight == flights[slot]
     IN  /\ groups' = IF flight.route = "POST /groups"
                      THEN setDoc(flight.groupId, flight.data, groups)
                      ELSE setMerge(flight.groupId, flight.data, groups)
         /\ flights' =
              [flights EXCEPT ![slot] =
                 [Answered(flight, IF flight.route = "POST /groups" THEN 201 ELSE 200, "")
                    EXCEPT !.wrote = TRUE]]
  /\ UNCHANGED <<req, users, http, attributeState, accounts, limitState, calls>>

\* DELETE /groups/{groupId}: Groups.delete and the answer.
DeleteStep(slot) ==
  /\ slot \in DOMAIN flights /\ flights[slot].pc = "delete"
  /\ groups' = delete(flights[slot].groupId, groups).store
  /\ flights' = [flights EXCEPT ![slot] = Answered(flights[slot], 204, "")]
  /\ UNCHANGED <<req, users, http, attributeState, accounts, limitState, calls>>

\* The response has been sent: the request is over.
Finish(slot) ==
  /\ slot \in DOMAIN flights /\ flights[slot].pc = "done"
  /\ flights' = [k \in DOMAIN flights \ {slot} |-> flights[k]]
  /\ UNCHANGED <<groupState, users, http, attributeState, accounts, limitState, calls>>

RaceNext ==
  \/ \E slot \in Slots, request \in RaceRequests : Arrive(slot, request)
  \/ \E slot \in Slots : PermitStep(slot)
  \/ \E slot \in Slots : FindStep(slot)
  \/ \E slot \in Slots : GetStep(slot)
  \/ \E slot \in Slots : SetStep(slot)
  \/ \E slot \in Slots : DeleteStep(slot)
  \/ \E slot \in Slots : Finish(slot)

RaceSpec == Init /\ [][RaceNext]_vars

\* ---------------------------------------------------------------- attribute requests side by side

\* The users whose attributes the requests are about.
ConcUsers == {"a", "b"}

\* Longest history an attribute is let to grow to by these requests.
MaxStored == 2

\* The attribute requests, each by the user the attributes belong to: create
\* x1, give it another value, read it.
ConcRequests ==
  {[route |-> "POST /users/:userId/attributes", userId |-> u, value |-> "v1", timestamp |-> 1500] :
     u \in ConcUsers}
    \cup {[route |-> "PUT /users/:userId/attributes/:attributeId", userId |-> u, value |-> v,
            timestamp |-> 2000] : u \in ConcUsers, v \in Values}
    \cup {[route |-> "GET /users/:userId/attributes/:attributeId", userId |-> u,
            value |-> Undefined, timestamp |-> 0] : u \in ConcUsers}

\* The answer a call ends with.
Responded(call, status, error) ==
  [call EXCEPT !.pc = "done", !.status = status, !.error = error]

\* What AttributeProvider.update hands to set: the document it built from what
\* its get read (not from what is stored when the set is applied).
updateSet_transactional(serializedAttribute, data, stored) ==
  [stored EXCEPT !.value = data.value, !.history = @ \o serialize(data.history)]

updateSet(serializedAttribute, data, stored) == serializedAttribute

\* The handler starts: Attributes.context({userId}) and, in the same turn,
\* the provider method up to its first await: this.userId, just set, names
\* the collection of the get.
Call(slot, request) ==
  /\ slot \notin DOMAIN calls
  /\ request.route = "PUT /users/:userId/attributes/:attributeId" =>
       \A u \in ConcUsers : Stored(<<u, "x1">>) < MaxStored
  /\ provider' = setContext(request.userId, TRUE)
  /\ calls' =
       [k \in DOMAIN calls \cup {slot} |->
          IF k = slot
          THEN [pc |-> "get", route |-> request.route, userId |-> request.userId,
                attributeId |-> "x1", value |-> request.value,
                history |-> <<Snapshot(request.userId, request.timestamp, NullMessage,
                                       request.value)>>,
                doc |-> request.userId, touched |-> {request.userId}, read |-> <<>>,
                serializedAttribute |-> NoAttribute, failed |-> FALSE,
                status |-> 0, error |-> ""]
          ELSE calls[k]]
  /\ UNCHANGED <<groupState, users, http, attributes, areq, accounts, limitState, flights>>

\* The get returns and the method runs on to its next await or its end. get:
\* the attribute, and the context is cleared if the provider's flag says so.
\* create and update: the guard on the document, then this.userId, as it is
\* now, names the collection of the set; doc(undefined) throws, and the catch
\* of create and update makes every error a backend-error.
GetReturns(slot) ==
  /\ slot \in DOMAIN calls /\ calls[slot].pc = "get"
  /\ LET call == calls[slot]
         key == <<call.doc, call.attributeId>>
         exists == key \in DOMAIN attributes
         existingData == attributes[key]
     IN  IF call.route = "GET /users/:userId/attributes/:attributeId"
         THEN /\ calls' = [calls EXCEPT ![slot] =
                             IF exists THEN Responded(call, 200, "")
                             ELSE Responded(call, errorHandler("entity-not-found").status,
                                            "entity-not-found")]
              /\ provider' = IF exists THEN cleared(provider) ELSE provider
         ELSE /\ provider' = provider
              /\ calls' =
                   [calls EXCEPT ![slot] =
                      IF exists = (call.route = "POST /users/:userId/attributes")
                      THEN Responded(call, errorHandler("backend-error").status, "backend-error")
                      ELSE IF provider.userId = Undefined
                      THEN [Responded(call, errorHandler("backend-error").status, "backend-error")
                              EXCEPT !.failed = TRUE]
                      ELSE [call EXCEPT
                              !.pc = "set", !.doc = provider.userId,
                              !.touched = @ \cup {provider.userId},
                              !.read = IF exists THEN existingData.history ELSE <<>>,
                              !.serializedAttribute =
                                IF exists
                                THEN [existingData EXCEPT
                                        !.value = call.value,
                                        !.history = serialize(revive(existingData.history)
                                                                \o call.history)]
                                ELSE [id |-> call.attributeId, value |-> call.value,
                                      history |-> serialize(call.history),
                                      userId |-> call.userId]]]
  /\ UNCHANGED <<groupState, users, http, attributes, areq, accounts, limitState, flights>>

\* The set is applied (that of create replaces the document, that of update
\* lays its fields, all those of the document, over it) and returns; the
\* context is cleared if the provider's flag says so, and the handler answers.
SetReturns(slot) ==
  /\ slot \in DOMAIN calls /\ calls[slot].pc = "set"
  /\ LET call == calls[slot]
         key == <<call.doc, call.attributeId>>
         document ==
           IF key \in DOMAIN attributes
                /\ call.route = "PUT /users/:userId/attributes/:attributeId"
           THEN updateSet(call.serializedAttribute,
                          [value |-> call.value, history |-> call.history], attributes[key])
           ELSE call.serializedAttribute
     IN  /\ attributes' =
              [k \in DOMAIN attributes \cup {key} |-> IF k = key THEN document ELSE attributes[k]]
         /\ calls' = [calls EXCEPT ![slot] =
                        Responded(call, IF call.route = "POST /users/:userId/attributes"
                                        THEN 201 ELSE 200, "")]
  /\ provider' = cleared(provider)
  /\ UNCHANGED <<groupState, users, http, areq, accounts, limitState, flights>>

\* The response has been sent: the request is over.
CallOver(slot) ==
  /\ slot \in DOMAIN calls /\ calls[slot].pc = "done"
  /\ calls' = [k \in DOMAIN calls \ {slot} |-> calls[k]]
  /\ UNCHANGED <<groupState, users, http, attributeState, accounts, limitState, flights>>

ConcNext ==
  \/ \E slot \in Slots, request \in ConcRequests : Call(slot, request)
  \/ \E slot \in Slots : GetReturns(slot)
  \/ \E slot \in Slots : SetReturns(slot)
  \/ \E slot \in Slots : CallOver(slot)

ConcSpec == Init /\ [][ConcNext]_vars

\* ---------------------------------------------------------------- claims

\* The elements of a list.
Range(list) == {list[i] : i \in 1..Len(list)}

\* The routes of routes/groups.ts without a permit middleware.
Unguarded == {"GET /groups", "PUT /groups/join"}

\* The request in flight has passed through permit and its handler has not run
\* yet: the store is as permit read it.
Decided == req.pc \in {"handler", "done"} /\ req.route \notin Unguarded /\ ~req.handled

Allowed == req.permit.kind = "next"
Denied403 ==
  /\ req.pc = "done" /\ ~req.handled
  /\ req.response.status = 403 /\ req.response.error = "not-allowed"

\* C1: whatever the requirement and the store, also when the target group,
\* user, conversation or report does not exist, permit calls next() for a
\* principal with isGroot = true and never answers not-allowed.
C1_GrootAlwaysAllowed ==
  (req.pc # "idle" /\ req.route \notin Unguarded /\ req.user.isGroot)
    => (Allowed /\ req.response.error # "not-allowed")

\* groot has passed a group requirement for a group that is not stored.
C1_Witness ==
  /\ req.pc = "handler" /\ req.user.isGroot /\ Allowed
  /\ req.context.subject = "group" /\ req.params.groupId \notin DOMAIN groups

C3_ParticipantIffKey ==
  (/\ Decided /\ ~req.user.isGroot
   /\ req.context = [subject |-> "group", roles |-> <<"participant">>]
   /\ req.params.groupId \in DOMAIN groups)
    => /\ Allowed <=> req.user.id \in DOMAIN groups[req.params.groupId].participants
       /\ ~Allowed => Denied403

\* A participant stored as mentee has been allowed as 'participant'.
C3_Witness ==
  /\ Decided /\ Allowed /\ ~req.user.isGroot
  /\ req.context = [subject |-> "group", roles |-> <<"participant">>]
  /\ req.params.groupId \in DOMAIN groups
  /\ Lookup(groups[req.params.groupId].participants, req.user.id) = "mentee"

\* C4: for a non-root principal P and a stored group G, a requirement on the
\* group subject that lists named roles only allows iff G.participants[P.id]
\* is one of the listed roles: the match is exact, no role stands for another.
C4_ExactRole ==
  (/\ Decided /\ ~req.user.isGroot
   /\ req.context.subject = "group" /\ "participant" \notin Range(req.context.roles)
   /\ req.params.groupId \in DOMAIN groups)
    => /\ Allowed <=> Lookup(groups[req.params.groupId].participants, req.user.id)
                        \in Range(req.context.roles)
       /\ ~Allowed => Denied403

\* A supermentor of the group has been denied by the requirement ['mentor'].
C4_Witness ==
  /\ Denied403 /\ ~req.user.isGroot
  /\ req.context = [subject |-> "group", roles |-> <<"mentor">>]
  /\ req.params.groupId \in DOMAIN groups
  /\ Lookup(groups[req.params.groupId].participants, req.user.id) = "supermentor"

\* C5: for a non-root principal P and a path user id U,
\* permit({subject:'user', roles}) allows iff 'self' is listed and U = P.id, or
\* P holds a listed role other than 'self' in a stored group that has both U
\* and P.id as participants; in every other case the answer is not-allowed.
C5_UserRule ==
  (Decided /\ ~req.user.isGroot /\ req.context.subject = "user")
    => LET P == req.user.id
           U == req.params.userId
           roles == Range(req.context.roles)
           rule ==
             \/ "self" \in roles /\ U = P
             \/ \E r \in roles \ {"self"}, g \in DOMAIN groups :
                  /\ U \in DOMAIN groups[g].participants
                  /\ P \in DOMAIN groups[g].participants
                  /\ groups[g].participants[P] = r
       IN  /\ Allowed <=> rule
           /\ ~Allowed => Denied403

\* C6: for a non-root principal P and a path conversation id C,
\* permit({subject:'conversation'}) allows iff some stored group has P.id as a
\* participant, has an entry for C in its conversations, and that entry
\* includes the role of P in the group; otherwise the answer is not-allowed.
C6_ConversationRule ==
  (Decided /\ ~req.user.isGroot /\ req.context.subject = "conversation")
    => LET P == req.user.id
           C == req.params.conversationId
           rule ==
             \E g \in DOMAIN groups :
               /\ P \in DOMAIN groups[g].participants
               /\ C \in DOMAIN groups[g].conversations
               /\ groups[g].participants[P] \in groups[g].conversations[C]
       IN  /\ Allowed <=> rule
           /\ ~Allowed => Denied403

\* C7: for a non-root principal P, a path user id U and a path report id R,
\* permit({subject:'report'}) allows iff some stored group has both P.id and U
\* as participants, has an entry for R in its reports, and that entry includes
\* the role of P in the group; otherwise the answer is not-allowed.
C7_ReportRule ==
  (Decided /\ ~req.user.isGroot /\ req.context.subject = "report")
    => LET P == req.user.id
           U == req.params.userId
           R == req.params.reportType
           rule ==
             \E g \in DOMAIN groups :
               /\ P \in DOMAIN groups[g].participants
               /\ U \in DOMAIN groups[g].participants
               /\ R \in DOMAIN groups[g].reports
               /\ groups[g].participants[P] \in groups[g].reports[R]
       IN  /\ Allowed <=> rule
           /\ ~Allowed => Denied403

\* C8: GET /groups/{gid} by a non-root principal A is answered 403 not-allowed
\* whenever A is not a participant of a stored group with that id, and equally
\* (403, never 404) when no group with that id is stored.
C8_NoExistenceLeak ==
  (/\ Decided /\ ~req.user.isGroot /\ req.route = "GET /groups/:groupId"
   /\ ~(/\ req.params.groupId \in DOMAIN groups
        /\ req.user.id \in DOMAIN groups[req.params.groupId].participants))
    => Denied403

C10_ListOnlyOwnGroups ==
  (req.pc = "done" /\ req.route = "GET /groups")
    => /\ ~req.user.isGroot =>
            \A i \in 1..Len(req.response.groups) :
              req.user.id \in DOMAIN req.response.groups[i].participants
       /\ (req.user.isGroot /\ req.payload = <<>>) =>
            Range(req.response.groups) = {groups[g] : g \in DOMAIN groups}

\* The request in flight is a PUT /groups/join that has been answered.
Joined == req.pc = "done" /\ req.route = "PUT /groups/join"

\* C13: after PUT /groups/join with code c by an authenticated principal P,
\* when a stored group has join code c, the answer is 200 and a stored group
\* with code c has the participants entry P.id = 'mentee', whatever role P
\* had in it before.
C13_JoinSetsMentee ==
  (/\ Joined /\ req.payload.type = "string"
   /\ \E g \in DOMAIN groups : groups[g].code = req.payload.code)
    => /\ req.response.status = 200
       /\ \E g \in DOMAIN groups :
            /\ groups[g].code = req.payload.code
            /\ Lookup(groups[g].participants, req.user.id) = "mentee"

\* C14: PUT /groups/join with a code that is the join code of no stored group
\* is answered 404 entity-not-found and leaves every stored group unchanged;
\* with a code that is not a string it is answered 400 improper-payload.
C14_JoinUnknownCode ==
  [][(req.pc = "idle" /\ req'.pc = "done" /\ req'.route = "PUT /groups/join")
       => /\ (/\ req'.payload.type = "string"
              /\ \A g \in DOMAIN groups : groups[g].code # req'.payload.code)
               => /\ req'.response.status = 404
                  /\ req'.response.error = "entity-not-found"
                  /\ groups' = groups
          /\ req'.payload.type # "string"
               => /\ req'.response.status = 400
                  /\ req'.response.error = "improper-payload"]_vars

\* The handler of PUT /groups/{groupId} runs in this step.
UpdateStep == req.pc = "handler" /\ req.route = "PUT /groups/:groupId" /\ req'.pc = "done"

\* C15: when non-root A, stored as 'supermentor' of the group G root created,
\* sends PUT /groups/{G.id} with a body that differs from G in the name only,
\* the answer is 200, the returned and the stored group carry the new name,
\* and the participants, conversations, reports and code of G are unchanged.
C15_RenameBySupermentor ==
  [][(/\ UpdateStep /\ ~req.user.isGroot
      /\ req.params.groupId \in DOMAIN groups
      /\ Lookup(groups[req.params.groupId].participants, req.user.id) = "supermentor"
      /\ req'.payload = [groups[req.params.groupId] EXCEPT !.id = 0, !.name = req'.payload.name])
       => LET id == req.params.groupId
              renamed == [groups[id] EXCEPT !.name = req'.payload.name]
          IN  /\ req'.response.status = 200
              /\ req'.response.groups = <<renamed>>
              /\ groups' = [groups EXCEPT ![id] = renamed]]_vars

C19_CreateExisting ==
  [][(/\ req.pc = "handler" /\ req.route = "POST /groups" /\ req'.pc = "done"
      /\ req'.payload.id \in DOMAIN groups)
       => /\ req'.response.status = 409
          /\ req'.response.error = "entity-already-exists"
          /\ groups' = groups]_vars

\* C20 (group provider): update(id, partial) called when no document with that
\* id is stored fails with entity-not-found (404) and creates no document;
\* called when the document exists it succeeds, and the stored and the
\* returned entity are the existing one with the fields of partial laid over.
C20_UpdateMerges ==
  [][UpdateStep
       => LET id == req.params.groupId
              partial == req'.payload
          IN  IF id \notin DOMAIN groups
              THEN /\ req'.response.status = 404
                   /\ req'.response.error = "entity-not-found"
                   /\ groups' = groups
              ELSE LET merged == [groups[id] EXCEPT !.name = partial.name,
                                                    !.participants = partial.participants,
                                                    !.conversations = partial.conversations,
                                                    !.reports = partial.reports,
                                                    !.code = partial.code]
                   IN  /\ req'.response.status = 200
                       /\ req'.response.groups = <<merged>>
                       /\ groups' = [groups EXCEPT ![id] = merged]]_vars

\* The URL starts with /ping, /auth or /docs.
Allowlisted(url) ==
  /\ Len(url) >= 5
  /\ SubSeq(url, 1, 5) \in {<<"/", "p", "i", "n", "g">>, <<"/", "a", "u", "t", "h">>,
                            <<"/", "d", "o", "c", "s">>}

\* What runs behind the authentication middleware: the rate limiter, the
\* documentation and validation middleware, permit, and the route handlers.
RouteHandlers == {"docs", "ping", "auth", "users", "groups", "*"}
Downstream == {"rateLimit", "validate", "permit"} \cup RouteHandlers

C12_HandlerAfterAuthentication ==
  /\ (http.pc # "idle" /\ http.user = NoUser /\ Range(http.ran) \cap Downstream # {})
       => Allowlisted(http.url)
  /\ (http.pc # "idle" /\ ~Allowlisted(http.url) /\ Range(http.ran) \cap RouteHandlers # {})
       => /\ Len(http.ran) > 4
          /\ SubSeq(http.ran, 1, 4) = <<"token", "verifyToken", "Users.get", "retrieveClaims">>
          /\ http.user.id \in users
          /\ http.user.isGroot = (http.user.id \in Roots)
          /\ Len(http.token) = 1 /\ http.token[1] \in DOMAIN TokenSub
          /\ TokenSub[http.token[1]] = http.user.id
  /\ (http.pc # "idle" /\ ~Allowlisted(http.url) /\ http.user = NoUser)
       => /\ http.error \in {"invalid-token", "entity-not-found", "backend-error"}
          /\ http.pc \in {"error", "done"}
          /\ Range(http.ran) \cap Downstream = {}

\* /pong with the token of groot behind the Bearer prefix has reached the
\* ping route.
C12_Witness ==
  /\ http.pc = "done" /\ http.url = UrlPong /\ http.ran[Len(http.ran)] = "ping"
  /\ http.authorization.value = <<"bearer", " ", "tg">>
  /\ http.user.isGroot /\ http.response.status = 200

\* A step in which PUT /users/{userId}/attributes/{attributeId} answered 200.
UpdatedAttribute ==
  /\ attributes' # attributes
  /\ areq'.route = "PUT /users/:userId/attributes/:attributeId"
  /\ areq'.status = 200

\* C17: for every attribute and every successful update of it, the history
\* stored before the update is a proper prefix of the history stored after
\* it: the length grows and every earlier entry is unchanged in value,
\* observer, timestamp and message.
C17_HistoryAppendOnly ==
  [][UpdatedAttribute =>
       \A key \in DOMAIN attributes \cap DOMAIN attributes' :
         /\ Len(attributes'[key].history) > Len(attributes[key].history)
         /\ SubSeq(attributes'[key].history, 1, Len(attributes[key].history))
              = attributes[key].history]_vars

\* C18: in every reachable store state every stored attribute has a history
\* that is not empty, and its value is the value of the last history entry.
C18_ValueIsLastSnapshot ==
  \A key \in DOMAIN attributes :
    /\ Len(attributes[key].history) > 0
    /\ attributes[key].value = attributes[key].history[Len(attributes[key].history)].value

\* An attribute which was created with one value, was then given another by
\* an update or an answer, and holds more than one history entry.
C18_Witness ==
  \E key \in DOMAIN attributes :
    /\ Len(attributes[key].history) > 1
    /\ attributes[key].history[1].value # attributes[key].value
    /\ areq.status = 200

\* The ten codes with the status each is to be answered with.
FixedStatus ==
  {<<"improper-payload", 400>>, <<"invalid-token", 401>>, <<"incorrect-credentials", 401>>,
   <<"not-allowed", 403>>, <<"entity-not-found", 404>>, <<"route-not-found", 404>>,
   <<"entity-already-exists", 409>>, <<"too-many-requests", 429>>, <<"backend-error", 500>>,
   <<"server-crash", 500>>}

SignUpFailed ==
  /\ http.pc = "router" /\ http.url = UrlSignUp
  /\ http'.pc = "done" /\ http'.response.error # ""

\* C24: after any sequence of sign-ups, failed at any step or not, every
\* account of the identity provider has a user document of the same id, and
\* a sign-up answered with an error has made no account.
C24_AccountsMirrored ==
  [][/\ accounts' \subseteq users'
     /\ SignUpFailed => accounts' = accounts]_vars

\* The requests of the window let past the limiter under a key, whatever
\* their ceiling.
RECURSIVE PassedUnder(_, _)
PassedUnder(key, tiers) ==
  IF tiers = {} THEN 0
  ELSE LET tier == CHOOSE t \in tiers : TRUE
       IN  (IF tier[1] = key THEN passed[tier] ELSE 0) + PassedUnder(key, tiers \ {tier})

\* The ceiling of a key: 50 for the client IP (no principal resolved), 2000
\* for the token of a non-root principal, 10000 for the token of root.
Ceiling(key) == IF key = Ip THEN 50 ELSE IF key = <<"tg">> THEN 10000 ELSE 2000

\* C22 as claimed: within one window and for one key, at most 50 requests
\* without a resolved principal, 2000 of a non-root principal and 10000 of a
\* root principal are let past the limiter, and a request over the ceiling is
\* answered too-many-requests (429) and reaches no route handler.
C22_CeilingPerKey ==
  /\ \A tier \in DOMAIN passed : PassedUnder(tier[1], DOMAIN passed) <= Ceiling(tier[1])
  /\ lreq.error # "" => lreq.error = "too-many-requests" /\ lreq.status = 429 /\ ~lreq.handled

\* C22 amended: the ceiling of a request without a resolved principal is 500
\* when its URL starts with /docs and 50 otherwise; within one window and for
\* one key at most as many requests of a ceiling are let past as the ceiling
\* says, and a request that brings the count of its key over its ceiling is
\* answered too-many-requests (429) and reaches no route handler.
C22_CeilingPerTier ==
  /\ \A tier \in DOMAIN passed :
       /\ tier[2] \in (IF tier[1] = Ip THEN {50, 500}
                       ELSE IF tier[1] = <<"tg">> THEN {10000} ELSE {2000})
       /\ passed[tier] <= tier[2]
  /\ lreq.key # "" =>
       IF Count(hits, lreq.key) > lreq.max
       THEN lreq.error = "too-many-requests" /\ lreq.status = 429 /\ ~lreq.handled
       ELSE lreq.error = "" /\ lreq.handled

\* A key has made more requests than its ceiling in the window, as many as
\* the ceiling were let past and the last was answered 429.
C22_Witness ==
  /\ lreq.error = "too-many-requests"
  /\ <<lreq.key, lreq.max>> \in DOMAIN passed
  /\ passed[<<lreq.key, lreq.max>>] = lreq.max

\* C23: after any sequence of group create, update and join operations, for
\* every stored group and every key, the shadow field __participants.<key>
\* (likewise __conversations, __reports) is true if and only if the key is a
\* key of the map participants (likewise conversations, reports).
C23_ShadowInSync ==
  \A id \in DOMAIN groups :
    \A field \in {"participants", "conversations", "reports"} :
      \A key \in DOMAIN groups[id][field] \cup Principals :
        shadow(groups[id], field, key) <=> key \in DOMAIN groups[id][field]

\* A step in which the answer route was answered 200 for an attribute the
\* caller had before.
AnsweredStored(key) ==
  /\ key \in DOMAIN attributes
  /\ attributes' # attributes
  /\ areq'.route = "PUT /conversations/:conversationId/questions/:questionId/answer"
  /\ areq'.status = 200

\* C28: a successful answer whose picked option targets an attribute the
\* caller has already appends exactly one snapshot (observer 'qa-bot', the
\* question as message, the answer as value) to the stored history: its
\* length after the request is its length before plus one.
C28_AnswerAppendsOne ==
  [][\A key \in DOMAIN attributes \cap DOMAIN attributes' :
       AnsweredStored(key) /\ attributes'[key] # attributes[key] =>
         LET before == attributes[key].history
             after == attributes'[key].history
         IN  /\ Len(after) = Len(before) + 1
             /\ after[Len(after)].observer = "qa-bot"
             /\ after[Len(after)].message.in = "question"
             /\ after[Len(after)].value = attributes'[key].value]_vars

\* A step in which a request reaches a guarded route and permit does not
\* allow it: it answers not-allowed or throws.
PermitRefuses ==
  /\ req.pc = "idle" /\ req'.pc # "idle"
  /\ req'.route \notin Unguarded
  /\ permit(req'.context, req'.user, req'.params, groups).kind # "next"

\* C29: a request that permit does not allow (it answers not-allowed or
\* forwards an error) is answered with an error, never runs the route handler
\* behind permit and leaves every stored user, group and attribute unchanged.
C29_RefusedHasNoEffect ==
  [][/\ PermitRefuses =>
          /\ req'.pc = "done" /\ ~req'.handled /\ req'.response.error # ""
          /\ groups' = groups /\ users' = users /\ attributes' = attributes
     /\ (req.pc = "done" /\ ~req.handled) =>
          /\ ~req'.handled
          /\ groups' = groups /\ users' = users /\ attributes' = attributes]_vars

\* A non-root principal asked for a group that is not stored while others
\* are: permit threw entity-not-found and the request is answered.
C29_Witness ==
  /\ req.pc = "done" /\ ~req.handled
  /\ req.route = "PUT /groups/:groupId" /\ ~req.user.isGroot
  /\ permit(req.context, req.user, req.params, groups).kind = "throw"
  /\ DOMAIN groups # {}

\* A join that found its group and has been answered.
JoinOver(slot) ==
  /\ flights[slot].route = "PUT /groups/join"
  /\ flights[slot].pc = "done"
  /\ flights[slot].groupId # 0

\* Two joins of the same group by different principals, both of which read the
\* group, with neither principal in it, while the other was in flight, are over.
TwoJoinsOver(s, t) ==
  /\ s \in DOMAIN flights /\ t \in DOMAIN flights /\ s # t
  /\ JoinOver(s) /\ JoinOver(t)
  /\ flights[s].read = flights[t].read
  /\ flights[s].user.id \notin flights[s].read /\ flights[t].user.id \notin flights[t].read
  /\ flights[s].user.id # flights[t].user.id
  /\ flights[s].groupId = flights[t].groupId

\* The stored participants of a group (none when it is not stored).
StoredParticipants(id) ==
  IF id \in DOMAIN groups THEN DOMAIN groups[id].participants ELSE {}

NoLostJoin ==
  \A s \in Slots, t \in Slots :
    (TwoJoinsOver(s, t) /\ flights[s].status = 200 /\ flights[t].status = 200) =>
      (flights[s].user.id \in StoredParticipants(flights[s].groupId))
        = (flights[t].user.id \in StoredParticipants(flights[s].groupId))

\* C30: a guarded handler writes only while its principal still satisfies the
\* requirement of the route: every write of PUT /groups/{groupId} happens in a
\* state where permit would let the principal through.
C30_WritesOnlyWhilePermitted ==
  [][\A slot \in Slots :
       (SetStep(slot) /\ flights[slot].route = "PUT /groups/:groupId") =>
         handleAsyncErrors(permit(ContextOf(flights[slot].route), flights[slot].user,
                                  [NoParams EXCEPT !.groupId = flights[slot].groupId],
                                  groups)).kind = "next"]_vars


\* Two updates of the same attribute of the same user, both answered 200, each
\* of which read the stored history before the other wrote.
TwoUpdatesOver(s, t) ==
  /\ s \in DOMAIN calls /\ t \in DOMAIN calls /\ s # t
  /\ \A k \in {s, t} :
       /\ calls[k].route = "PUT /users/:userId/attributes/:attributeId"
       /\ calls[k].pc = "done" /\ calls[k].status = 200
       /\ calls[k].doc = calls[k].userId
  /\ calls[s].userId = calls[t].userId
  /\ calls[s].read = calls[t].read

\* C26: attribute update is a read-then-write that loses an update: when two
\* updates of the same attribute of the same user have read the same stored
\* history and have both been answered 200, the stored history is the one
\* they read followed by the snapshot of only one of them.
C26_UpdateLosesSnapshot ==
  \A s \in Slots, t \in Slots :
    TwoUpdatesOver(s, t) =>
      LET key == <<calls[s].userId, calls[s].attributeId>>
      IN  /\ key \in DOMAIN attributes
          /\ \E k \in {s, t} :
               attributes[key].history
                 = serialize(revive(calls[s].read) \o calls[k].history)

\* Two such updates with different snapshots are over.
C26_Witness ==
  \E s \in Slots, t \in Slots :
    /\ TwoUpdatesOver(s, t)
    /\ calls[s].history # calls[t].history
    /\ Len(attributes[<<calls[s].userId, calls[s].attributeId>>].history)
         = Len(calls[s].read) + 1


\* C27: under every interleaving of requests sharing the AttributeProvider,
\* the store calls of a request whose context was set to user U touch only
\* documents of U's attribute collection, and none fails because the
\* provider's userId was changed or cleared by another request meanwhile.
C27_ContextNeverLeaks ==
  \A slot \in DOMAIN calls :
    /\ calls[slot].touched \subseteq {calls[slot].userId}
    /\ ~calls[slot].failed

\* No store call goes to the collection of another user.
TouchesOwnOnly == \A slot \in DOMAIN calls : calls[slot].touched \subseteq {calls[slot].userId}

\* No store call fails for a cleared context.
NeverCleared == \A slot \in DOMAIN calls : ~calls[slot].failed


====
